---- MODULE Spec2Model ----
(***************************************************************************)
(* Count-Min sketch of src/mincountsketch.ipynb: the CountMinSketch class  *)
(* (construction, add, estimate), the exact `dictionary` baseline, and the *)
(* inner-product classifiers BinaryClassification and classifier.          *)
(*                                                                         *)
(* Tables are numpy float64 arrays in the source; every value the model    *)
(* reaches is a small non-negative integer, which float64 holds exactly,   *)
(* so cells are modelled as integers.  Rows and columns keep the source's  *)
(* 0-based indices.                                                        *)
(***************************************************************************)
EXTENDS Integers, Sequences, FiniteSets, TLC

(* ------------------------------ bounds --------------------------------- *)

\* Largest value tried for `indexes` and `hashfuncs` (the source defaults,
\* 2**8 and 2**3, scaled down).
MaxDim == 2

\* Most tokens fed to one sketch (bulk load and add together).
MaxAdds == 2

\* Largest width tried for a hash function called on its own.
MaxWidth == 9

\* The default of `indexes`, 2**8.
DefaultIndexes == 256

\* The values tried for a dimension: negative, zero and positive ones.
Dims == -1..MaxDim

\* Three of the 16-character words of the notebook's fruit-fly data
\* (the output of print(fruitfly[:5])).
Tokens == {"CGACAATGCACGACAG", "AGGAAGCAGAACAGAT", "ATTTAGATTGCCTCTC"}

\* The two of them fed to the sketches that are compared with each other:
\* they share a column in row 0 of a table of width 2 and differ in row 1.
TwoTokens == {"AGGAAGCAGAACAGAT", "ATTTAGATTGCCTCTC"}

\* The sketch variables of the notebook.
Names == {"genomesketch", "fruitflysketch", "subhuman"}

VARIABLES
  bound,    \* bound[s]: the name s is bound to a constructed CountMinSketch
  N,        \* N[s]: self.N, the width (indexes)
  M,        \* M[s]: self.M, the depth (hashfuncs)
  table,    \* table[s]: self.table, row ix in 0..M-1, column in 0..N-1
  stream,   \* stream[s]: the tokens fed to s so far, in order
  adding,   \* the add call in progress, if any: its sketch, val and next row ix
  last      \* the last call made and how it ended

vars == <<bound, N, M, table, stream, adding, last>>

(* ------------------------------ helpers -------------------------------- *)

\* All sequences over S of length at most n.
SeqsUpTo(S, n) == UNION {[1..k -> S] : k \in 0..n}

\* A call record: the receiver (self), a token or sketch argument (arg),
\* integer or list arguments (args).  raised = "" when the call returned
\* normally; ret is <<>> for None and <<x>> for the number x; label is the
\* class a classifier printed or returned.
Call(op, self, arg, args, raised, ret, label) ==
  [op |-> op, self |-> self, arg |-> arg, args |-> args,
   raised |-> raised, ret |-> ret, label |-> label]

(* ------------------------- dictionary (exact counts) ------------------- *)

\* dictionary.add applied to every token of a list (dictionary.timed_update):
\* the exact number of occurrences of token in the list.
RECURSIVE dictionary(_, _)
dictionary(tokenlist, token) ==
  IF tokenlist = <<>> THEN 0
  ELSE dictionary(Tail(tokenlist), token)
       + (IF Head(tokenlist) = token THEN 1 ELSE 0)

(* ------------------------------ hashing -------------------------------- *)

\* mmh3.hash(val, seed=seed): MurmurHash3_x86_32 as a signed 32-bit integer,
\* tabulated for the model's tokens and the seeds 0..3.
mmh3_hash(val, seed) ==
  CASE val = "CGACAATGCACGACAG" ->
         (CASE seed = 0 -> -581270777  [] seed = 1 -> -1610409272
            [] seed = 2 -> -1721236770 [] seed = 3 -> 1580855200)
    [] val = "AGGAAGCAGAACAGAT" ->
         (CASE seed = 0 -> -976829072  [] seed = 1 -> -478126181
            [] seed = 2 -> 967131389   [] seed = 3 -> -1731437022)
    [] val = "ATTTAGATTGCCTCTC" ->
         (CASE seed = 0 -> 445186584   [] seed = 1 -> -1040035406
            [] seed = 2 -> -1834987125 [] seed = 3 -> -447383973)

\* Mutant of PyMod: the remainder takes the sign of the dividend, as C's %
\* and numpy's fmod do, so a negative index gives a negative column.
PyModTruncates(index, n) ==
  IF index >= 0 THEN index % n ELSE 0 - ((-index) % n)

\* Python's index % self.N for self.N > 0: the result has the sign of the
\* divisor, so it lies in 0..n-1 also for a negative index.
PyMod(index, n) ==
  IF index >= 0 THEN index % n ELSE (n - ((-index) % n)) % n

\* self.seeds = np.arange(hashfuncs).tolist(): seed ix for row ix.
seeds(hashfuncs) == [ix \in 0..(hashfuncs - 1) |-> ix]

\* The closure hash_fn that _genhash(seed) returns, applied to val in a
\* sketch of width n (n > 0; n = 0 raises ZeroDivisionError, see add).
hash_fn(n, seed, val) == PyMod(mmh3_hash(val, seed), n)

(* --------------------------- CountMinSketch ---------------------------- *)

\* Mutant of zeros: the table starts at one (np.ones for np.zeros).
ones(m, n) == [ix \in 0..(m - 1) |-> [k \in 0..(n - 1) |-> 1]]

\* np.zeros((m, n)).
zeros(m, n) == [ix \in 0..(m - 1) |-> [k \in 0..(n - 1) |-> 0]]

\* Mutant of addRow: the cell is decremented (-= 1 for += 1).
addRowDecrements(tbl, n, m, ix, val) ==
  [tbl EXCEPT ![ix][hash_fn(n, seeds(m)[ix], val)] = @ - 1]

\* Mutant of addRow: the cell is assigned, not incremented (= 1 for += 1).
addRowAssigns(tbl, n, m, ix, val) ==
  [tbl EXCEPT ![ix][hash_fn(n, seeds(m)[ix], val)] = 1]

\* One pass of the loop body of add:
\*   self.table[ix, self.hashes[ix](val)] += 1
addRow(tbl, n, m, ix, val) ==
  [tbl EXCEPT ![ix][hash_fn(n, seeds(m)[ix], val)] = @ + 1]

\* The loop of add from row ix on: for ix in range(0, self.M).
RECURSIVE addFrom(_, _, _, _, _)
addFrom(tbl, n, m, ix, val) ==
  IF ix >= m THEN tbl
  ELSE addFrom(addRow(tbl, n, m, ix, val), n, m, ix + 1, val)

\* Mutant of add: the loop stops one row early (range(0, self.M - 1)).
addSkipsLastRow(tbl, n, m, val) ==
  IF m > 1 /\ n = 0
  THEN [raised |-> "ZeroDivisionError", table |-> tbl]
  ELSE [raised |-> "", table |-> addFrom(tbl, n, m - 1, 0, val)]

\* CountMinSketch.add(val) on a sketch of width n, depth m.  With n = 0 and
\* m > 0 the first hash raises ZeroDivisionError before any cell changes.
add(tbl, n, m, val) ==
  IF m > 0 /\ n = 0
  THEN [raised |-> "ZeroDivisionError", table |-> tbl]
  ELSE [raised |-> "", table |-> addFrom(tbl, n, m, 0, val)]

\* The loop  for value in seqlist: self.add(value)  of __init__ (and of
\* timed_update); the first add that raises ends it.
RECURSIVE addAll(_, _, _, _)
addAll(tbl, n, m, seqlist) ==
  IF seqlist = <<>> THEN [raised |-> "", table |-> tbl]
  ELSE LET r == add(tbl, n, m, Head(seqlist))
       IN  IF r.raised # "" THEN r
           ELSE addAll(r.table, n, m, Tail(seqlist))

\* Mutant of bulkLoad: the first value of seqlist is skipped (seqlist[1:]).
bulkLoadSkipsFirst(tbl, n, m, seqlist) ==
  IF seqlist = <<>> THEN [raised |-> "", table |-> tbl]
  ELSE addAll(tbl, n, m, Tail(seqlist))

\* The bulk load of __init__:
\*   if seqlist is not None: for value in seqlist: self.add(value)
bulkLoad(tbl, n, m, seqlist) == addAll(tbl, n, m, seqlist)

\* CountMinSketch.__init__(seqlist, indexes, hashfuncs).  np.zeros raises
\* ValueError for a negative dimension and accepts a zero one.  seqlist = <<>>
\* stands for both None and an empty list: neither adds anything.
__init__(seqlist, indexes, hashfuncs) ==
  IF indexes < 0 \/ hashfuncs < 0
  THEN [raised |-> "ValueError", table |-> <<>>]
  ELSE bulkLoad(zeros(hashfuncs, indexes), indexes, hashfuncs, seqlist)

\* CountMinSketch.estimate(value): the loop header reads the global name M,
\* which the notebook never binds, so the call raises NameError; the loop
\* body is `pass` and nothing is returned in any case.
estimate(tbl, n, m, value) ==
  [raised |-> "NameError", ret |-> <<>>]

(* ------------------------ inner-product classifiers -------------------- *)

\* numpy broadcasting of one axis: two lengths combine when they are equal
\* or one of them is 1; the result has the other's length.
broadcastable(a, b) == a = b \/ a = 1 \/ b = 1
broadcast(a, b) == IF a = 1 THEN b ELSE a

\* The sum of row[0..n-1] (ndarray.sum along a row; 0 for an empty row).
RECURSIVE rowSum(_, _)
rowSum(row, n) == IF n = 0 THEN 0 ELSE row[n - 1] + rowSum(row, n - 1)

\* The least of v[0..m-1], m > 0 (ndarray.min).
RECURSIVE vecMin(_, _)
vecMin(v, m) ==
  IF m = 1 THEN v[0]
  ELSE LET r == vecMin(v, m - 1) IN IF v[m - 1] < r THEN v[m - 1] ELSE r

\* Mutant of _dotProduct: the sum runs along the wrong axis,
\*   (tableA * tableB).sum(axis=0).min()
_dotProductAxis0(tableA, shapeA, tableB, shapeB) ==
  IF ~(broadcastable(shapeA[1], shapeB[1]) /\ broadcastable(shapeA[2], shapeB[2]))
  THEN [raised |-> "ValueError", ret |-> <<>>]
  ELSE LET m == broadcast(shapeA[1], shapeB[1])
           n == broadcast(shapeA[2], shapeB[2])
           prod == [k \in 0..(n - 1) |-> [j \in 0..(m - 1) |->
                      tableA[IF shapeA[1] = 1 THEN 0 ELSE j][IF shapeA[2] = 1 THEN 0 ELSE k]
                    * tableB[IF shapeB[1] = 1 THEN 0 ELSE j][IF shapeB[2] = 1 THEN 0 ELSE k]]]
           sums == [k \in 0..(n - 1) |-> rowSum(prod[k], m)]
       IN  IF n = 0
           THEN [raised |-> "ValueError", ret |-> <<>>]
           ELSE [raised |-> "", ret |-> <<vecMin(sums, n)>>]

\* BinaryClassification._dotProduct and classifier._dotProduct (the same
\* body):  (tableA * tableB).sum(axis=1).min()
\* shapeA and shapeB are the arrays' shapes <<rows, columns>>.  The product
\* broadcasts; shapes that do not broadcast raise ValueError, and so does
\* min() of an array with no rows.
_dotProduct(tableA, shapeA, tableB, shapeB) ==
  IF ~(broadcastable(shapeA[1], shapeB[1]) /\ broadcastable(shapeA[2], shapeB[2]))
  THEN [raised |-> "ValueError", ret |-> <<>>]
  ELSE LET m == broadcast(shapeA[1], shapeB[1])
           n == broadcast(shapeA[2], shapeB[2])
           prod == [j \in 0..(m - 1) |-> [k \in 0..(n - 1) |->
                      tableA[IF shapeA[1] = 1 THEN 0 ELSE j][IF shapeA[2] = 1 THEN 0 ELSE k]
                    * tableB[IF shapeB[1] = 1 THEN 0 ELSE j][IF shapeB[2] = 1 THEN 0 ELSE k]]]
           sums == [j \in 0..(m - 1) |-> rowSum(prod[j], n)]
       IN  IF m = 0
           THEN [raised |-> "ValueError", ret |-> <<>>]
           ELSE [raised |-> "", ret |-> <<vecMin(sums, m)>>]

\* Mutant of classify: the comparison is x >= y, so that a tie goes to A.
classifyTieToA(x, y) ==
  IF x.raised # "" THEN [raised |-> x.raised, label |-> ""]
  ELSE IF y.raised # "" THEN [raised |-> y.raised, label |-> ""]
  ELSE [raised |-> "", label |-> IF x.ret[1] >= y.ret[1] THEN "A" ELSE "B"]

\* BinaryClassification.classify(subsketch), with x and y the two results of
\* _dotProduct: class A when x > y, class B otherwise.
classify(x, y) ==
  IF x.raised # "" THEN [raised |-> x.raised, label |-> ""]
  ELSE IF y.raised # "" THEN [raised |-> y.raised, label |-> ""]
  ELSE [raised |-> "", label |-> IF x.ret[1] > y.ret[1] THEN "A" ELSE "B"]

\* np.argmax(dotproduct) for a non-empty list: the 0-based index of the
\* first occurrence of the largest value.
argmax(dotproduct) ==
  CHOOSE i \in 0..(Len(dotproduct) - 1) :
    /\ \A j \in 0..(Len(dotproduct) - 1) : dotproduct[j + 1] <= dotproduct[i + 1]
    /\ \A j \in 0..(i - 1) : dotproduct[j + 1] < dotproduct[i + 1]

\* classifier.compare(subsketch), with results the list of the _dotProduct
\* results, one per sketch of self.sketchset in order:
\*   return self.labels[np.argmax(dotproduct)]
\* The first _dotProduct that raises ends the call; argmax of an empty list
\* raises ValueError; an index beyond labels raises IndexError.
compare(results, labels) ==
  IF \E i \in 1..Len(results) : results[i].raised # ""
  THEN [raised |-> results[CHOOSE i \in 1..Len(results) :
                             /\ results[i].raised # ""
                             /\ \A j \in 1..(i - 1) : results[j].raised = ""].raised,
        label |-> ""]
  ELSE IF results = <<>> THEN [raised |-> "ValueError", label |-> ""]
  ELSE LET i == argmax([k \in 1..Len(results) |-> results[k].ret[1]])
       IN  IF i >= Len(labels)
           THEN [raised |-> "IndexError", label |-> ""]
           ELSE [raised |-> "", label |-> labels[i + 1]]

(* ------------------------------ actions -------------------------------- *)

\* No add call is in progress.
NoAdd == [self |-> "", val |-> "", ix |-> 0]

Init ==
  /\ bound = [s \in Names |-> FALSE]
  /\ N = [s \in Names |-> 0]
  /\ M = [s \in Names |-> 0]
  /\ table = [s \in Names |-> <<>>]
  /\ stream = [s \in Names |-> <<>>]
  /\ adding = NoAdd
  /\ last = Call("none", "", "", <<>>, "", <<>>, "")

\* s = CountMinSketch(seqlist=seqlist, indexes=indexes, hashfuncs=hashfuncs)
Construct(s, seqlist, indexes, hashfuncs) ==
  /\ ~bound[s]
  /\ LET r == __init__(seqlist, indexes, hashfuncs)
     IN  /\ IF r.raised = ""
            THEN /\ bound' = [bound EXCEPT ![s] = TRUE]
                 /\ N' = [N EXCEPT ![s] = indexes]
                 /\ M' = [M EXCEPT ![s] = hashfuncs]
                 /\ table' = [table EXCEPT ![s] = r.table]
                 /\ stream' = [stream EXCEPT ![s] = seqlist]
                 /\ UNCHANGED adding
            ELSE UNCHANGED <<bound, N, M, table, stream, adding>>
         /\ last' = Call("construct", s, "", <<indexes, hashfuncs>>,
                         r.raised, <<>>, "")

\* s.add(val)
Add(s, val) ==
  /\ bound[s]
  /\ Len(stream[s]) < MaxAdds
  /\ LET r == add(table[s], N[s], M[s], val)
     IN  /\ table' = [table EXCEPT ![s] = r.table]
         /\ stream' = IF r.raised = ""
                      THEN [stream EXCEPT ![s] = Append(@, val)]
                      ELSE stream
         /\ last' = Call("add", s, val, <<>>, r.raised, <<>>, "")
  /\ UNCHANGED <<bound, N, M, adding>>

\* s.estimate(value)
Estimate(s, value) ==
  /\ bound[s]
  /\ LET r == estimate(table[s], N[s], M[s], value)
     IN  last' = Call("estimate", s, value, <<>>, r.raised, r.ret, "")
  /\ UNCHANGED <<bound, N, M, table, stream, adding>>

\* The shape of s.table.
shape(s) == <<M[s], N[s]>>

\* BinaryClassification(a, b)._dotProduct(a.table, b.table)
DotProduct(a, b) ==
  /\ bound[a] /\ bound[b]
  /\ LET r == _dotProduct(table[a], shape(a), table[b], shape(b))
     IN  last' = Call("_dotProduct", a, b, <<>>, r.raised, r.ret, "")
  /\ UNCHANGED <<bound, N, M, table, stream, adding>>

\* BinaryClassification(streamA, streamB).classify(subsketch)
Classify(streamA, streamB, subsketch) ==
  /\ bound[streamA] /\ bound[streamB] /\ bound[subsketch]
  /\ LET x == _dotProduct(table[subsketch], shape(subsketch), table[streamA], shape(streamA))
         y == _dotProduct(table[subsketch], shape(subsketch), table[streamB], shape(streamB))
         r == classify(x, y)
     IN  last' = Call("classify", subsketch, "", <<streamA, streamB>>, r.raised, <<>>, r.label)
  /\ UNCHANGED <<bound, N, M, table, stream, adding>>

\* classifier(sketchset, labels).compare(subsketch)
Compare(sketchset, labels, subsketch) ==
  /\ bound[subsketch] /\ \A i \in 1..Len(sketchset) : bound[sketchset[i]]
  /\ LET results == [i \in 1..Len(sketchset) |->
                       _dotProduct(table[subsketch], shape(subsketch),
                                   table[sketchset[i]], shape(sketchset[i]))]
         r == compare(results, labels)
     IN  last' = Call("compare", subsketch, "", <<sketchset, labels>>, r.raised, <<>>, r.label)
  /\ UNCHANGED <<bound, N, M, table, stream, adding>>

\* One sketch: construction with any dimensions, updates and point queries.
Next ==
  \/ \E seqlist \in SeqsUpTo(Tokens, MaxAdds), indexes \in Dims, hashfuncs \in Dims :
       Construct("genomesketch", seqlist, indexes, hashfuncs)
  \/ \E val \in Tokens : Add("genomesketch", val)
  \/ \E value \in Tokens : Estimate("genomesketch", value)

Spec == Init /\ [][Next]_vars

(* ------------------------------- claims -------------------------------- *)

\* The exact count of token among the tokens fed to s (the `dictionary`
\* baseline fed the same list).
trueCount(s, token) == dictionary(stream[s], token)

\* The point query of the notebook's description,
\*   Q(i) = min_j count[j, h_j(i)],  for a sketch with at least one row.
RECURSIVE minOverRows(_, _, _, _)
minOverRows(tbl, n, m, value) ==
  LET c == tbl[m - 1][hash_fn(n, seeds(m)[m - 1], value)]
  IN  IF m = 1 THEN c
      ELSE LET r == minOverRows(tbl, n, m - 1, value) IN IF c < r THEN c ELSE r

\* C1: after any sequence of updates, for every token the point query
\* (CountMinSketch.estimate) returns a number that is at least the token's
\* true count.  Stated on every completed estimate call.
C1_EstimateNeverUnder ==
  last.op = "estimate" =>
    /\ last.raised = ""
    /\ last.ret # <<>>
    /\ last.ret[1] >= trueCount(last.self, last.arg)

\* C2: the point query returns exactly the minimum over the rows j of
\* table[j, hash_j(token)] and leaves the table as it was.  Stated on every
\* estimate step of a sketch with at least one row and one column.
C2_EstimateIsRowMinimum ==
  [][(last'.op = "estimate" /\ M[last'.self] > 0 /\ N[last'.self] > 0) =>
       /\ table' = table
       /\ last'.raised = ""
       /\ last'.ret = <<minOverRows(table[last'.self], N[last'.self],
                                    M[last'.self], last'.arg)>>]_vars

\* C3: one add(val) that returns increases, in every row ix, the cell
\* [ix, hash_ix(val)] by one and leaves every other cell of the table, and
\* every other sketch, unchanged.
C3_AddChangesOneCellPerRow ==
  [][(last'.op = "add" /\ last'.raised = "") =>
       LET s == last'.self
       IN  /\ \A ix \in 0..(M[s] - 1), k \in 0..(N[s] - 1) :
                table'[s][ix][k] =
                  table[s][ix][k]
                  + (IF k = hash_fn(N[s], seeds(M[s])[ix], last'.arg) THEN 1 ELSE 0)
           /\ DOMAIN table'[s] = DOMAIN table[s]
           /\ \A ix \in 0..(M[s] - 1) : DOMAIN table'[s][ix] = DOMAIN table[s][ix]
           /\ \A o \in Names \ {s} : table'[o] = table[o]]_vars

\* C3 witness: an add has returned on a sketch of depth and width 2 or more,
\* leaving one cell at 1 in each of two rows.
C3_Witness ==
  /\ last.op = "add" /\ last.raised = ""
  /\ M[last.self] >= 2 /\ N[last.self] >= 2
  /\ \A ix \in 0..1 : \E k \in 0..(N[last.self] - 1) : table[last.self][ix][k] >= 1

\* Every cell of every constructed table is non-negative.
CellsNonNegative ==
  \A s \in Names : bound[s] =>
    \A ix \in 0..(M[s] - 1), k \in 0..(N[s] - 1) : table[s][ix][k] >= 0

\* No step makes a cell of a constructed table smaller, nor changes the
\* table's dimensions.
CellsNonDecreasing ==
  \A s \in Names : bound[s] =>
    /\ bound'[s] /\ M'[s] = M[s] /\ N'[s] = N[s]
    /\ \A ix \in 0..(M[s] - 1), k \in 0..(N[s] - 1) :
         table'[s][ix][k] >= table[s][ix][k]

\* C4: from construction on, every cell is non-negative in every reachable
\* state and no operation makes a cell smaller than it was.
C4_NonNegativeNonDecreasing ==
  []CellsNonNegative /\ [][CellsNonDecreasing]_vars

\* C4 witness: a cell has counted two updates.
C4_Witness ==
  \E s \in Names : bound[s] /\
    \E ix \in 0..(M[s] - 1), k \in 0..(N[s] - 1) : table[s][ix][k] >= 2

\* C7: a construction with indexes <= 0 or hashfuncs <= 0 raises, a
\* construction with both positive returns (a table of zeros when nothing is
\* bulk-loaded), and no add is the first call to fail on the dimensions.
C7_DimensionsCheckedAtConstruction ==
  /\ (last.op = "construct" /\ (last.args[1] <= 0 \/ last.args[2] <= 0))
       => last.raised # ""
  /\ (last.op = "construct" /\ last.args[1] > 0 /\ last.args[2] > 0)
       => /\ last.raised = ""
          /\ stream[last.self] = <<>> =>
               table[last.self] = zeros(last.args[2], last.args[1])
  /\ last.op = "add" => last.raised = ""

\* The true inner product of the frequency vectors of a and b over the
\* tokens toks: the sum over t of trueCount(a, t) * trueCount(b, t).
RECURSIVE trueInnerProduct(_, _, _)
trueInnerProduct(toks, a, b) ==
  IF toks = {} THEN 0
  ELSE LET t == CHOOSE x \in toks : TRUE
       IN  trueCount(a, t) * trueCount(b, t) + trueInnerProduct(toks \ {t}, a, b)

\* C5: for two sketches of identical dimensions (hence identical seeds) with
\* at least one row, built by any updates, _dotProduct returns a number that
\* is at least the true inner product of the two frequency vectors.
C5_InnerProductNeverUnder ==
  (last.op = "_dotProduct" /\ shape(last.self) = shape(last.arg) /\ M[last.self] >= 1) =>
    /\ last.raised = ""
    /\ last.ret # <<>>
    /\ last.ret[1] >= trueInnerProduct(Tokens, last.self, last.arg)

\* C5 witness: the estimate of two different sketches with two rows or more
\* was computed and collisions made it exceed a true inner product of 1 or
\* more.
C5_Witness ==
  /\ last.op = "_dotProduct" /\ last.raised = "" /\ last.self # last.arg
  /\ shape(last.self) = shape(last.arg) /\ M[last.self] >= 2
  /\ trueInnerProduct(Tokens, last.self, last.arg) >= 1
  /\ last.ret[1] > trueInnerProduct(Tokens, last.self, last.arg)

\* C6: _dotProduct on two sketches whose dimensions differ, in depth or in
\* width, always raises and never returns a number.  Stated for sketches
\* whose dimensions are all positive.
C6_MismatchedDimensionsRaise ==
  (/\ last.op = "_dotProduct"
   /\ shape(last.self) # shape(last.arg)
   /\ M[last.self] > 0 /\ N[last.self] > 0 /\ M[last.arg] > 0 /\ N[last.arg] > 0) =>
    /\ last.raised # ""
    /\ last.ret = <<>>

\* The streams of a and b hold the same tokens the same number of times.
sameMultiset(a, b) == \A t \in Tokens : trueCount(a, t) = trueCount(b, t)

\* C8: two sketches of identical dimensions (hence identical seeds) have
\* identical tables whenever they were fed the same multiset of tokens, in
\* whatever order and whether by bulk load or by add.
C8_TableDependsOnMultisetOnly ==
  \A a \in Names, b \in Names :
    (bound[a] /\ bound[b] /\ shape(a) = shape(b) /\ sameMultiset(a, b))
      => table[a] = table[b]

\* C8 witness: a sketch with two rows and two columns or more was just
\* bulk-loaded with two or more tokens, and another sketch of the same
\* dimensions has been fed the same tokens in another order.
C8_Witness ==
  /\ last.op = "construct" /\ last.raised = ""
  /\ Len(stream[last.self]) >= 2 /\ M[last.self] >= 2 /\ N[last.self] >= 2
  /\ \E b \in Names \ {last.self} :
       /\ bound[b] /\ shape(b) = shape(last.self)
       /\ sameMultiset(last.self, b)
       /\ stream[b] # stream[last.self]
       /\ table[b] = table[last.self]

\* The inner-product estimate of the query sketch q with the reference r,
\* when it is computed.
dot(q, r) == _dotProduct(table[q], shape(q), table[r], shape(r)).ret[1]

\* What a completed compare returned: the label at the position of a
\* reference whose estimate is the highest and which no earlier reference
\* equals.
CompareReturnsFirstMax ==
  (last.op = "compare" /\ last.raised = "") =>
    LET sketchset == last.args[1]
        labels == last.args[2]
    IN  \E i \in 1..Len(sketchset) :
          /\ i <= Len(labels) /\ last.label = labels[i]
          /\ \A j \in 1..Len(sketchset) :
               dot(last.self, sketchset[j]) <= dot(last.self, sketchset[i])
          /\ \A j \in 1..(i - 1) :
               dot(last.self, sketchset[j]) < dot(last.self, sketchset[i])

\* C10 (as amended): compare returns the label of the first reference, in
\* the order of sketchset, whose estimate is the highest; classify prints
\* class A when A's estimate is strictly higher than B's and class B
\* otherwise, so that a tie goes to B, the second reference.
C10_FirstMaxAndTieToB ==
  /\ CompareReturnsFirstMax
  /\ (last.op = "classify" /\ last.raised = "") =>
       LET x == dot(last.self, last.args[1])
           y == dot(last.self, last.args[2])
       IN  /\ last.label = "A" <=> x > y
           /\ last.label = "B" <=> x <= y

\* C10 witness: classify has run on a query whose estimates with A and with
\* B are equal and not zero.
C10_Witness ==
  /\ last.op = "classify" /\ last.raised = ""
  /\ dot(last.self, last.args[1]) = dot(last.self, last.args[2])
  /\ dot(last.self, last.args[1]) >= 1
  /\ table[last.args[1]] # table[last.args[2]]

\* C10 (as claimed): both compare and classify select the reference with the
\* highest estimate and, on a tie, the first one (A for classify).
C10_FirstMaxEverywhere ==
  /\ CompareReturnsFirstMax
  /\ (last.op = "classify" /\ last.raised = "") =>
       LET x == dot(last.self, last.args[1])
           y == dot(last.self, last.args[2])
       IN  /\ last.label = "A" <=> x >= y
           /\ last.label = "B" <=> x < y

\* The two reference sketches of the notebook (fly_or_human's A and B).
Pair == {"genomesketch", "fruitflysketch"}

\* Two sketches of the same dimensions (hence the same seeds), each
\* bulk-loaded and updated on its own, and the inner product of their tables.
NextPair ==
  \/ \E s \in Pair, seqlist \in SeqsUpTo(TwoTokens, MaxAdds),
        indexes \in 0..MaxDim, hashfuncs \in 0..MaxDim :
       /\ \A o \in Pair : bound[o] => (N[o] = indexes /\ M[o] = hashfuncs)
       /\ Construct(s, seqlist, indexes, hashfuncs)
  \/ \E s \in Pair, val \in TwoTokens : Add(s, val)
  \/ \E a \in Pair, b \in Pair : DotProduct(a, b)

SpecPair == Init /\ [][NextPair]_vars

\* Two sketches of any dimensions and the inner product of their tables.
NextShapes ==
  \/ \E s \in Pair, seqlist \in SeqsUpTo(Tokens, MaxAdds),
        indexes \in Dims, hashfuncs \in Dims :
       Construct(s, seqlist, indexes, hashfuncs)
  \/ \E s \in Pair, val \in Tokens : Add(s, val)
  \/ \E a \in Pair, b \in Pair : DotProduct(a, b)

SpecShapes == Init /\ [][NextShapes]_vars

\* The labels of the two reference sketches (two of the notebook's labels).
Labels == <<"Human", "Fruit Fly">>

\* The notebook's classification: every sketch is built with the default
\* dimensions (here MaxDim by MaxDim) by bulk load, as subhuman and sketchset
\* are; subhuman is classified against genomesketch and fruitflysketch, by
\* BinaryClassification and by a classifier over the two in either order,
\* with a label for each or for the first only.
NextClassify ==
  \/ \E s \in Names, seqlist \in SeqsUpTo(TwoTokens, MaxAdds) :
       Construct(s, seqlist, MaxDim, MaxDim)
  \/ Classify("genomesketch", "fruitflysketch", "subhuman")
  \/ \E sketchset \in {<<"genomesketch", "fruitflysketch">>,
                       <<"fruitflysketch", "genomesketch">>},
        labels \in {Labels, SubSeq(Labels, 1, 1)} :
       Compare(sketchset, labels, "subhuman")

SpecClassify == Init /\ [][NextClassify]_vars

(* -------------------------- the hash functions ------------------------- *)

\* The widths tried for a hash function: the small ones and the default.
Widths == (1..MaxWidth) \cup {DefaultIndexes}

\* self.hashes[ix](val) in a sketch of width n, with seed = self.seeds[ix]:
\* the closure of _genhash called on its own.  args holds the seed, the
\* width and the raw value of mmh3.hash; ret the column index returned.
HashFn(n, seed, val) ==
  /\ last' = Call("hash_fn", "", val, <<seed, n, mmh3_hash(val, seed)>>, "",
                  <<hash_fn(n, seed, val)>>, "")
  /\ UNCHANGED <<bound, N, M, table, stream, adding>>

\* Every hash function of a sketch of up to four rows, on every token and
\* every width.
NextHash ==
  \E n \in Widths, seed \in 0..3, val \in Tokens : HashFn(n, seed, val)

SpecHash == Init /\ [][NextHash]_vars

\* C11: for every seed, token and width w > 0 the column index a hash
\* function returns lies in 0..w-1, also when the raw hash value is negative:
\* it is never outside the row and never negative (a negative index would
\* count from the end of the row).
C11_HashIndexInRange ==
  last.op = "hash_fn" =>
    /\ last.ret[1] >= 0
    /\ last.ret[1] < last.args[2]
    /\ (last.args[3] - last.ret[1]) % last.args[2] = 0

\* C11 witness: a hash function was called on a token whose raw hash value is
\* negative and not a multiple of the width.
C11_Witness ==
  /\ last.op = "hash_fn"
  /\ last.args[3] < 0
  /\ last.args[2] >= 2
  /\ last.ret[1] >= 1

(* ---------------- an update in progress and a reader ------------------- *)

\* s.add(val) is called: the loop of add is entered at row 0.
AddBegin(s, val) ==
  /\ bound[s] /\ adding = NoAdd
  /\ Len(stream[s]) < MaxAdds
  /\ adding' = [self |-> s, val |-> val, ix |-> 0]
  /\ UNCHANGED <<bound, N, M, table, stream, last>>

\* One pass of the loop of the add in progress: row ix is incremented, or
\* the hash raises ZeroDivisionError (width 0) and the call ends.
AddRowStep ==
  /\ adding # NoAdd
  /\ adding.ix < M[adding.self]
  /\ LET s == adding.self
     IN  IF N[s] = 0
         THEN /\ adding' = NoAdd
              /\ last' = Call("add", s, adding.val, <<>>, "ZeroDivisionError", <<>>, "")
              /\ UNCHANGED table
         ELSE /\ table' = [table EXCEPT
                             ![s] = addRow(@, N[s], M[s], adding.ix, adding.val)]
              /\ adding' = [adding EXCEPT !.ix = @ + 1]
              /\ UNCHANGED last
  /\ UNCHANGED <<bound, N, M, stream>>

\* The loop of the add in progress is over: the call returns.
AddReturn ==
  /\ adding # NoAdd
  /\ adding.ix >= M[adding.self]
  /\ stream' = [stream EXCEPT ![adding.self] = Append(@, adding.val)]
  /\ last' = Call("add", adding.self, adding.val, <<>>, "", <<>>, "")
  /\ adding' = NoAdd
  /\ UNCHANGED <<bound, N, M, table>>

\* What a reader of s.table computes for value at this point:
\*   min_j count[j, h_j(value)]
readerMin(s, value) == minOverRows(table[s], N[s], M[s], value)

\* A reader computes the point query of value on s.table as it is now,
\* whether or not an add is in progress.
Read(s, value) ==
  /\ bound[s] /\ M[s] >= 1 /\ N[s] >= 1
  /\ last' = Call("read", s, value, <<>>, "", <<readerMin(s, value)>>, "")
  /\ UNCHANGED <<bound, N, M, table, stream, adding>>

\* One writer that runs add row by row and a reader that may read the table
\* between any two of its steps.
NextReader ==
  \/ \E seqlist \in SeqsUpTo(Tokens, MaxAdds), indexes \in Dims, hashfuncs \in Dims :
       Construct("genomesketch", seqlist, indexes, hashfuncs)
  \/ \E val \in Tokens : AddBegin("genomesketch", val)
  \/ AddRowStep
  \/ AddReturn
  \/ \E value \in Tokens : Read("genomesketch", value)

SpecReader == Init /\ [][NextReader]_vars

\* s.table as it will be when the add in progress on s, if any, has returned.
tableWhenDone(s) ==
  IF adding.self = s
  THEN addFrom(table[s], N[s], M[s], adding.ix, adding.val)
  ELSE table[s]

\* C12: at every point of an update in progress (between two row
\* increments, before the first, after the last) the reader's minimum over
\* rows is, for every token, at least the token's count over the updates
\* that have completed and at most the minimum once the update in progress
\* has completed.
C12_ReaderBetweenRowIncrements ==
  \A s \in Names : (bound[s] /\ M[s] >= 1 /\ N[s] >= 1) =>
    \A t \in Tokens :
      /\ readerMin(s, t) >= trueCount(s, t)
      /\ readerMin(s, t) <= minOverRows(tableWhenDone(s), N[s], M[s], t)

\* C12 witness: the reader has just read a token between two row increments
\* of an add of that token; the token was added before, and the value read
\* is below the one the same query returns once the add has completed.
C12_Witness ==
  /\ last.op = "read" /\ adding.self = last.self /\ adding.val = last.arg
  /\ adding.ix >= 1 /\ adding.ix < M[last.self]
  /\ last.ret[1] = readerMin(last.self, last.arg)
  /\ trueCount(last.self, last.arg) >= 1
  /\ last.ret[1] < minOverRows(tableWhenDone(last.self), N[last.self],
                               M[last.self], last.arg)

(* ------------------------------ row sums ------------------------------- *)

\* C13: after any sequence of completed updates, T of them in all (those of
\* the bulk load included), the cells of every row sum to exactly T, so all
\* rows have equal sums, and no cell exceeds T.
C13_EveryRowSumsToTotal ==
  \A s \in Names : bound[s] =>
    LET T == Len(stream[s])
    IN  \A ix \in 0..(M[s] - 1) :
          /\ rowSum(table[s][ix], N[s]) = T
          /\ \A k \in 0..(N[s] - 1) : table[s][ix][k] <= T

\* C13 witness: an add has returned on a sketch of two rows and two columns
\* or more that has counted two updates or more, and one of its rows holds
\* them in two cells.
C13_Witness ==
  /\ last.op = "add" /\ last.raised = ""
  /\ M[last.self] >= 2 /\ N[last.self] >= 2
  /\ Len(stream[last.self]) >= 2
  /\ \E ix \in 0..(M[last.self] - 1) :
       \E k1 \in 0..(N[last.self] - 1), k2 \in 0..(N[last.self] - 1) :
         /\ k1 # k2
         /\ table[last.self][ix][k1] >= 1 /\ table[last.self][ix][k2] >= 1

====
